---- MODULE Spec2Model ----
(***************************************************************************)
(* Task execution core of homebase: the ExecutionEngine of                 *)
(* specs/planning-execution.md (execute / executeStep), the approval gate  *)
(* it consults and the ExecutionContext it fills.  One run of execute over *)
(* one plan is modelled; the plan is drawn in Init from the valid plans    *)
(* over NSteps steps.                                                      *)
(***************************************************************************)
EXTENDS Integers, Sequences, FiniteSets, TLC

\* ---------------------------------------------------------------- bounds
NSteps == 3        \* steps of the plan, identified by array position
CountCap == 2      \* call counters saturate here (2 = "more than once")
MaxTasks == 3      \* largest batch handed to SubAgentPool.executeAll
NTaskIds == 2      \* task ids on the control channel
MaxDeliveries == 3 \* execute_task deliveries per task id
MaxEvents == 3     \* progress events emitted per task
MaxProbes == 3     \* health probes sent by the monitor
MaxBadEdges == 2   \* dependsOn entries of a malformed plan that break validity
MaxConcurrencyArg == 2 \* largest maxConcurrency given to new SubAgentPool directly
MaxAgents == 4     \* agents a pool is grown to by repeated spawn calls

\* the configured concurrency ceiling of the scheduler (spec 4.1); the
\* engine of planning-execution.md has no such parameter and never reads it
Ceiling == 2

Steps == 1..NSteps

\* StepStatus, planning-execution.md:30-37
StepStatus == {"pending", "blocked", "ready", "running",
               "completed", "failed", "skipped"}
Terminal == {"completed", "failed", "skipped"}

\* StepResult, planning-execution.md:39-45 (duration/timestamp left out);
\* set = FALSE is the absent optional field step.result
NoResult == [set |-> FALSE, ok |-> FALSE, error |-> ""]
DeniedResult == [set |-> TRUE, ok |-> FALSE, error |-> "User denied approval"]
OkResult == [set |-> TRUE, ok |-> TRUE, error |-> ""]
ToolErrorResult == [set |-> TRUE, ok |-> FALSE, error |-> "tool error"]
ThrownResult == [set |-> TRUE, ok |-> FALSE, error |-> "Error: thrown"]

VARIABLES
  deps,        \* Step.dependsOn: step -> set of prerequisite ids (0: no step has that id)
  refs,        \* per step: the steps its args reference ("$stepId" values)
  toolKnown,   \* per step: toolRegistry.get(step.tool) finds a tool
  argsValid,   \* per step: tool.inputSchema.safeParse(step.args) succeeds
  order,       \* Step.order
  vResult,     \* what validatePlan returned for the plan
  critical,    \* step.critical flag of the plan
  status,      \* Step.status
  result,      \* Step.result
  approval,    \* per step: state of its approval request
  stepPc,      \* per step: position of its executeStep call
  pc,          \* position of execute: "loop", "await", "done"
  batch,       \* the readySteps handed to the Promise.all being awaited
  context,     \* ExecutionContext.store
  events,      \* per step: the statuses of its progress events, in emission order
  dispatched,  \* per step: number of executeStep calls
  invoked,     \* per step: number of tool.execute calls
  summary,     \* value returned by execute
  cancelled,   \* a cancel_task message for the task of the run was received
  pCount,      \* spawn_sub_agents: args.count, the requested parallelism
  pTasks,      \* spawn_sub_agents: number of tasks of args.tasks (tasks 1..pTasks)
  pPc,         \* position of spawnSubAgentsTool.execute
  pAgents,     \* SubAgentPool.agents, one record per agent: its processQueue call
  pQueue,      \* executeAll: the shared queue
  pResults,    \* executeAll: the results array
  pThrown,     \* tasks whose agent.execute rejected
  dInbox,      \* execute_task messages accepted and not yet taken by agentLoop
  dCurrent,    \* task id agentLoop is executing, 0 when it waits in receiveTask
  dRuns,       \* per task id: number of executor.execute runs started
  dDelivered,  \* per task id: number of execute_task deliveries
  dRedelivered, \* per task id: deliveries that arrived while the task was running
  cChan,       \* VM -> host messages in flight
  cEmitted,    \* per task id: sequence numbers of the progress events emitted
  cObserved,   \* per task id: sequence numbers the host has observed
  hProbe,      \* per probe: state of its sendToVM({ type: 'health_check' })
  hRestart,    \* per probe: state of the restartVM it triggered
  rVariant,    \* which retry loop runs: "executeWithRetry" or "strategy2"
  rI,          \* loop index i
  rPc,         \* position in the retry loop
  rOutcomes,   \* outcome of every attempt so far
  rDelays,     \* argument of every sleep so far
  rResult      \* what the loop ended with

\* the plan as it was handed over, and the verdict of validatePlan on it
planVars == <<refs, toolKnown, argsValid, order, vResult>>

engineVars == <<planVars, deps, critical, status, result, approval, stepPc, pc, batch,
                context, events, dispatched, invoked, summary>>

\* the variables execute and executeStep never touch
poolVars == <<pCount, pTasks, pPc, pAgents, pQueue, pResults, pThrown>>

dispVars == <<dInbox, dCurrent, dRuns, dDelivered, dRedelivered>>
chanVars == <<cChan, cEmitted, cObserved>>
healthVars == <<hProbe, hRestart>>
retryVars == <<rVariant, rI, rPc, rOutcomes, rDelays, rResult>>

nonEngineVars == <<cancelled, poolVars, dispVars, chanVars, healthVars, retryVars>>
notPool == <<engineVars, cancelled, dispVars, chanVars, healthVars, retryVars>>
notDisp == <<engineVars, cancelled, poolVars, chanVars, healthVars, retryVars>>
notChan == <<engineVars, cancelled, poolVars, dispVars, healthVars, retryVars>>
notHealth == <<engineVars, cancelled, poolVars, dispVars, chanVars, retryVars>>
notRetry == <<engineVars, cancelled, poolVars, dispVars, chanVars, healthVars>>

vars == <<engineVars, nonEngineVars>>

\* ------------------------------------------------------------- the plan
\* Valid plans: every dependsOn id resolves to a step of the plan and the
\* graph is acyclic.  Steps are listed in a topological order (a step
\* depends only on steps before it in the array); every DAG has such a
\* listing and execute does not look at array positions.
ValidDeps == {d \in [Steps -> SUBSET Steps] : \A s \in Steps : d[s] \subseteq 1..(s-1)}

RECURSIVE Ancestors(_)
Ancestors(s) == deps[s] \cup UNION {Ancestors(d) : d \in deps[s]}

Descendants(f) == {s \in Steps : f \in Ancestors(s)}

\* ------------------------------------------------------ helper operators
Inc(n) == IF n < CountCap THEN n + 1 ELSE n

\* emitProgress({ step, status }): the event joins the events of its step
emitProgress(ev, s, st) == [ev EXCEPT ![s] = Append(@, st)]

\* hasRemainingSteps(plan): some step has not reached a terminal status
hasRemainingSteps == \E s \in Steps : status[s] \notin Terminal

\* allDependenciesSatisfied(s, plan): every prerequisite is completed
allDependenciesSatisfied(s) ==
  \A d \in deps[s] : d \in Steps /\ status[d] = "completed"

\* mutants of the readySteps filter
readySteps_nostatus ==
  {s \in Steps : status[s] # "running" /\ allDependenciesSatisfied(s)}
readySteps_nodeps == {s \in Steps : status[s] = "pending"}

\* execute, lines 174-177
readySteps ==
  {s \in Steps : status[s] = "pending" /\ allDependenciesSatisfied(s)}

\* mutant: the run is aborted as soon as a step has failed
LoopContinues_abort ==
  /\ hasRemainingSteps
  /\ readySteps # {}
  /\ \A s \in Steps : status[s] # "failed"

\* faulty variant: the deadlock break of lines 179-182 is missing
LoopContinues_nobreak == hasRemainingSteps

\* execute, lines 172-182: the while condition and the deadlock break
LoopContinues == hasRemainingSteps /\ readySteps # {}

\* faulty variant: every value is stored under one and the same key
contextSet_samekey(store, stepId, value) == [store EXCEPT ![1] = value]

\* ExecutionContext.set, lines 262-264
contextSet(store, stepId, value) == [store EXCEPT ![stepId] = value]

\* summarize(plan, context): overall status and per-step statuses/results
summarize ==
  [status |-> IF \E s \in Steps : status[s] = "failed" THEN "failed"
              ELSE IF \E s \in Steps : status[s] \notin Terminal
                   THEN "structural-error"
              ELSE IF \E s \in Steps : status[s] = "skipped"
                   THEN "completed-with-skips"
              ELSE "completed",
   steps |-> status,
   results |-> result]

NoSummary == [status |-> "none", steps |-> [s \in Steps |-> "pending"],
              results |-> [s \in Steps |-> NoResult]]

\* requestApproval: a request that gets no decision within the configured
\* timeout is resolved as denied
TimeoutDecision == FALSE

\* ------------------------------------------------------- sub-agent pool
\* limits.maxSubAgents, the hard limit
maxSubAgents == 10
\* spawnSubAgentsTool.inputSchema: count is z.number().min(1).max(10)
CountSchemaMin == 1
CountSchemaMax == 10

Min(a, b) == IF a <= b THEN a ELSE b

\* no spawn_sub_agents call is in progress
PoolIdle ==
  /\ pCount = 0
  /\ pTasks = 0
  /\ pPc = "none"
  /\ pAgents = <<>>
  /\ pQueue = <<>>
  /\ pResults = <<>>
  /\ pThrown = {}

\* ------------------------------------------------------ control channel
TaskIds == 1..NTaskIds
Probes == 1..MaxProbes

\* agentLoop waits in receiveTask, nothing was delivered
DispIdle ==
  /\ dInbox = <<>>
  /\ dCurrent = 0
  /\ dRuns = [t \in TaskIds |-> 0]
  /\ dDelivered = [t \in TaskIds |-> 0]
  /\ dRedelivered = [t \in TaskIds |-> 0]

\* nothing was emitted on the VM -> host channel
ChanIdle ==
  /\ cChan = <<>>
  /\ cEmitted = [t \in TaskIds |-> <<>>]
  /\ cObserved = [t \in TaskIds |-> <<>>]

\* monitorHealth has sent no probe
HealthIdle ==
  /\ hProbe = [k \in Probes |-> "unsent"]
  /\ hRestart = [k \in Probes |-> "none"]

\* no retry loop is running
RetryIdle ==
  /\ rVariant = "none"
  /\ rI = 0
  /\ rPc = "none"
  /\ rOutcomes = <<>>
  /\ rDelays = <<>>
  /\ rResult = "none"

\* Result<void> of validatePlan; NotValidated: validatePlan was not called
NotValidated == [ok |-> FALSE, error |-> "not validated"]

\* a plan as the planner is to deliver it: every tool known, every args bag
\* valid, order equal to the array position, no "$stepId" argument
PlainPlan ==
  /\ refs = [s \in Steps |-> {}]
  /\ toolKnown = [s \in Steps |-> TRUE]
  /\ argsValid = [s \in Steps |-> TRUE]
  /\ order = [s \in Steps |-> s]
  /\ vResult = NotValidated

\* the plan and the engine state while only another component is exercised
EngineParked ==
  /\ PlainPlan
  /\ deps = [s \in Steps |-> {}]
  /\ critical = [s \in Steps |-> FALSE]
  /\ status = [s \in Steps |-> "pending"]
  /\ result = [s \in Steps |-> NoResult]
  /\ approval = [s \in Steps |-> "none"]
  /\ stepPc = [s \in Steps |-> "idle"]
  /\ pc = "loop"
  /\ batch = {}
  /\ context = [s \in Steps |-> "absent"]
  /\ events = [s \in Steps |-> <<>>]
  /\ dispatched = [s \in Steps |-> 0]
  /\ invoked = [s \in Steps |-> 0]
  /\ summary = NoSummary

\* ----------------------------------------------------------------- Init
Init ==
  /\ PlainPlan
  /\ deps \in ValidDeps
  /\ critical \in [Steps -> BOOLEAN]
  /\ status = [s \in Steps |-> "pending"]
  /\ result = [s \in Steps |-> NoResult]
  /\ approval = [s \in Steps |-> "none"]
  /\ stepPc = [s \in Steps |-> "idle"]
  /\ pc = "loop"
  /\ batch = {}
  /\ context = [s \in Steps |-> "absent"]
  /\ events = [s \in Steps |-> <<>>]
  /\ dispatched = [s \in Steps |-> 0]
  /\ invoked = [s \in Steps |-> 0]
  /\ summary = NoSummary
  /\ cancelled = FALSE
  /\ PoolIdle
  /\ DispIdle /\ ChanIdle /\ HealthIdle /\ RetryIdle

\* -------------------------------------------------------------- actions
\* One pass of the while loop of execute, lines 172-187: readySteps.map
\* calls executeStep for every ready step; each call runs synchronously
\* (lines 197-213) up to its first await, which is requestApproval for a
\* gated step and tool.execute otherwise.  For a step whose tool is not in
\* the registry, line 212 yields undefined and line 213 throws inside the
\* try: the catch block runs before the call returns.
Pass ==
  /\ pc = "loop"
  /\ LoopContinues
  /\ LET unknown == {s \in readySteps : ~toolKnown[s]}
     IN \E gated \in SUBSET (readySteps \ unknown) :
       /\ status' = [s \in Steps |->
                       IF s \in unknown THEN "failed"
                       ELSE IF s \in readySteps THEN "running" ELSE status[s]]
       /\ result' = [s \in Steps |-> IF s \in unknown THEN ThrownResult ELSE result[s]]
       /\ dispatched' = [s \in Steps |->
                           IF s \in readySteps THEN Inc(dispatched[s]) ELSE dispatched[s]]
       /\ events' = [s \in Steps |->
                       IF s \in unknown THEN events[s] \o <<"running", "failed">>
                       ELSE IF s \in readySteps THEN Append(events[s], "running")
                       ELSE events[s]]
       /\ approval' = [s \in Steps |->
                         IF s \in gated THEN "pending"
                         ELSE IF s \in readySteps THEN "notRequired"
                         ELSE approval[s]]
       /\ stepPc' = [s \in Steps |->
                       IF s \in unknown THEN "settled"
                       ELSE IF s \in gated THEN "awaitApproval"
                       ELSE IF s \in readySteps THEN "awaitTool"
                       ELSE stepPc[s]]
       /\ invoked' = [s \in Steps |->
                        IF s \in readySteps \ (gated \cup unknown)
                        THEN Inc(invoked[s]) ELSE invoked[s]]
  /\ batch' = readySteps
  /\ pc' = "await"
  /\ UNCHANGED <<planVars, deps, critical, context, summary>>
  /\ UNCHANGED nonEngineVars

\* mutant: the return of the denial branch is missing
ResumeFromApproval_fallthrough(s, approved) ==
  /\ status' = IF approved THEN status ELSE [status EXCEPT ![s] = "skipped"]
  /\ result' = IF approved THEN result ELSE [result EXCEPT ![s] = DeniedResult]
  /\ invoked' = [invoked EXCEPT ![s] = Inc(@)]
  /\ stepPc' = [stepPc EXCEPT ![s] = "awaitTool"]
  /\ UNCHANGED <<context, events>>

\* mutant: the test of approved is missing, the tool runs whatever the decision
ResumeFromApproval_nocheck(s, approved) ==
  /\ invoked' = [invoked EXCEPT ![s] = Inc(@)]
  /\ stepPc' = [stepPc EXCEPT ![s] = "awaitTool"]
  /\ UNCHANGED <<status, result, context, events>>

\* mutant: a denial marks the step failed
ResumeFromApproval_failed(s, approved) ==
  IF approved
  THEN /\ invoked' = [invoked EXCEPT ![s] = Inc(@)]
       /\ stepPc' = [stepPc EXCEPT ![s] = "awaitTool"]
       /\ UNCHANGED <<status, result, context, events>>
  ELSE /\ status' = [status EXCEPT ![s] = "failed"]
       /\ result' = [result EXCEPT ![s] = DeniedResult]
       /\ stepPc' = [stepPc EXCEPT ![s] = "settled"]
       /\ UNCHANGED <<invoked, context, events>>

\* executeStep, lines 203-213: requestApproval has resolved with approved
ResumeFromApproval(s, approved) ==
  IF approved
  THEN /\ invoked' = [invoked EXCEPT ![s] = Inc(@)]
       /\ stepPc' = [stepPc EXCEPT ![s] = "awaitTool"]
       /\ UNCHANGED <<status, result, context, events>>
  ELSE /\ status' = [status EXCEPT ![s] = "skipped"]
       /\ result' = [result EXCEPT ![s] = DeniedResult]
       /\ stepPc' = [stepPc EXCEPT ![s] = "settled"]
       /\ UNCHANGED <<invoked, context, events>>

\* faulty variant: one shared pending request, a decision settles all of them
ApprovalDecision_shared(s, approved) ==
  /\ stepPc[s] = "awaitApproval"
  /\ LET P == {t \in Steps : stepPc[t] = "awaitApproval"}
     IN /\ approval' = [t \in Steps |->
                          IF t \in P THEN (IF approved THEN "approved" ELSE "denied")
                          ELSE approval[t]]
        /\ status' = [t \in Steps |->
                        IF t \in P /\ ~approved THEN "skipped" ELSE status[t]]
        /\ result' = [t \in Steps |->
                        IF t \in P /\ ~approved THEN DeniedResult ELSE result[t]]
        /\ invoked' = [t \in Steps |->
                         IF t \in P /\ approved THEN Inc(invoked[t]) ELSE invoked[t]]
        /\ stepPc' = [t \in Steps |->
                        IF t \in P THEN (IF approved THEN "awaitTool" ELSE "settled")
                        ELSE stepPc[t]]
  /\ UNCHANGED <<planVars, deps, critical, pc, batch, dispatched, summary, context, events>>
  /\ UNCHANGED nonEngineVars

\* the user answers the approval request of step s
ApprovalDecision(s, approved) ==
  /\ stepPc[s] = "awaitApproval"
  /\ approval' = [approval EXCEPT ![s] = IF approved THEN "approved" ELSE "denied"]
  /\ ResumeFromApproval(s, approved)
  /\ UNCHANGED <<planVars, deps, critical, pc, batch, dispatched, summary>>
  /\ UNCHANGED nonEngineVars

\* no decision arrived within the configured timeout
ApprovalTimeout(s) ==
  /\ stepPc[s] = "awaitApproval"
  /\ approval' = [approval EXCEPT ![s] = "timeout"]
  /\ ResumeFromApproval(s, TimeoutDecision)
  /\ UNCHANGED <<planVars, deps, critical, pc, batch, dispatched, summary>>
  /\ UNCHANGED nonEngineVars

\* faulty variant: the exception leaves executeStep uncaught
Catch_rethrow(s) ==
  /\ stepPc' = [stepPc EXCEPT ![s] = "rejected"]
  /\ UNCHANGED <<status, result, events>>

\* executeStep, lines 223-227: the catch block
Catch(s) ==
  /\ status' = [status EXCEPT ![s] = "failed"]
  /\ result' = [result EXCEPT ![s] = ThrownResult]
  /\ events' = emitProgress(events, s, "failed")
  /\ stepPc' = [stepPc EXCEPT ![s] = "settled"]

\* executeStep, lines 213-221: tool.execute resolves with result.ok = ok
ToolReturn(s, ok) ==
  /\ stepPc[s] = "awaitTool"
  /\ status' = [status EXCEPT ![s] = IF ok THEN "completed" ELSE "failed"]
  /\ result' = [result EXCEPT ![s] = IF ok THEN OkResult ELSE ToolErrorResult]
  /\ context' = contextSet(context, s, IF ok THEN "value" ELSE "undefined")
  /\ events' = emitProgress(events, s, status'[s])
  /\ stepPc' = [stepPc EXCEPT ![s] = "settled"]
  /\ UNCHANGED <<planVars, deps, critical, approval, pc, batch, dispatched, invoked, summary>>
  /\ UNCHANGED nonEngineVars

\* tool.execute rejects
ToolThrow(s) ==
  /\ stepPc[s] = "awaitTool"
  /\ Catch(s)
  /\ UNCHANGED <<planVars, deps, critical, approval, pc, batch, context, dispatched, invoked, summary>>
  /\ UNCHANGED nonEngineVars

\* execute, line 185: Promise.all resolves once every executeStep of the
\* pass has returned
BatchDone ==
  /\ pc = "await"
  /\ \A s \in batch : stepPc[s] = "settled"
  /\ pc' = "loop"
  /\ UNCHANGED <<planVars, deps, critical, status, result, approval, stepPc, batch,
                 context, events, dispatched, invoked, summary>>
  /\ UNCHANGED nonEngineVars

\* execute, lines 172/179-181/190: the loop ends and the summary is returned
Return ==
  /\ pc = "loop"
  /\ ~LoopContinues
  /\ summary' = summarize
  /\ pc' = "done"
  /\ UNCHANGED <<planVars, deps, critical, status, result, approval, stepPc, batch,
                 context, events, dispatched, invoked>>
  /\ UNCHANGED nonEngineVars

Next ==
  \/ Pass
  \/ \E s \in Steps, a \in BOOLEAN : ApprovalDecision(s, a)
  \/ \E s \in Steps : ApprovalTimeout(s)
  \/ \E s \in Steps, ok \in BOOLEAN : ToolReturn(s, ok)
  \/ \E s \in Steps : ToolThrow(s)
  \/ BatchDone
  \/ Return

Spec == Init /\ [][Next]_vars

\* vm-isolation.md:69: the host sends cancel_task for the task of the run.
\* Nothing in execute or executeStep reads the signal.
Cancel ==
  /\ ~cancelled
  /\ pc # "done"
  /\ cancelled' = TRUE
  /\ UNCHANGED <<engineVars, poolVars, dispVars, chanVars, healthVars, retryVars>>

CancelNext == Next \/ Cancel

\* The runs checked for liveness: plans without critical steps (execute
\* never reads the flag), and the approval timer of a pending request
\* eventually fires.
FairInit == Init /\ critical = [s \in Steps |-> FALSE]

FairSpec ==
  FairInit /\ [][Next]_vars /\ \A s \in Steps : WF_vars(ApprovalTimeout(s))

\* the runs in which the task may be cancelled at any moment
CancelSpec == FairInit /\ [][CancelNext]_vars

\* no step of the plan was touched yet, no step is critical, and the other
\* components are idle
EngineStart ==
  /\ critical = [s \in Steps |-> FALSE]
  /\ status = [s \in Steps |-> "pending"]
  /\ result = [s \in Steps |-> NoResult]
  /\ approval = [s \in Steps |-> "none"]
  /\ stepPc = [s \in Steps |-> "idle"]
  /\ batch = {}
  /\ context = [s \in Steps |-> "absent"]
  /\ events = [s \in Steps |-> <<>>]
  /\ dispatched = [s \in Steps |-> 0]
  /\ invoked = [s \in Steps |-> 0]
  /\ summary = NoSummary
  /\ cancelled = FALSE
  /\ PoolIdle /\ DispIdle /\ ChanIdle /\ HealthIdle /\ RetryIdle

\* The runs over plans with a "$stepId" argument (planning-execution.md:
\* 284-303: "content": "$step_1"): at most one step of the plan references
\* the output of another step; nothing ties a reference to dependsOn.
RefInit ==
  /\ toolKnown = [s \in Steps |-> TRUE]
  /\ argsValid = [s \in Steps |-> TRUE]
  /\ order = [s \in Steps |-> s]
  /\ vResult = NotValidated
  /\ \E s, r \in Steps :
       refs = [x \in Steps |-> IF x = s /\ r # s THEN {r} ELSE {}]
  /\ deps \in ValidDeps
  /\ pc = "loop"
  /\ EngineStart

RefSpec == RefInit /\ [][Next]_vars

\* --------------------------------------------------------- validatePlan
\* buildDependencyGraph / hasCycle (planning-execution.md:100-101): the
\* dependsOn edges between steps of the plan contain a cycle
RECURSIVE ReachFrom(_, _)
ReachFrom(S, n) ==
  IF n = 0 THEN S
  ELSE ReachFrom(S \cup UNION {deps[x] \cap Steps : x \in S}, n - 1)

hasCycle == \E s \in Steps : s \in ReachFrom(deps[s] \cap Steps, NSteps)

\* validatePlan, lines 106-127: the loop over plan.steps from step s on
RECURSIVE validateSteps(_)
validateSteps(s) ==
  IF s > NSteps THEN [ok |-> TRUE, error |-> ""]
  ELSE IF ~toolKnown[s] THEN [ok |-> FALSE, error |-> "Unknown tool"]
  ELSE IF ~argsValid[s] THEN [ok |-> FALSE, error |-> "Invalid args"]
  ELSE IF \E d \in deps[s] : d \notin Steps
       THEN [ok |-> FALSE, error |-> "Unknown dependency"]
  ELSE validateSteps(s + 1)

\* faulty variant: the cycle check is missing
validatePlan_nocycle == validateSteps(1)

\* validatePlan, lines 98-128
validatePlan ==
  IF hasCycle THEN [ok |-> FALSE, error |-> "Plan contains circular dependencies"]
  ELSE validateSteps(1)

\* dependsOn entries no valid plan has: an id that is no step of the plan
\* (0), the step itself, or a step later in the array
BadEdges == {e \in Steps \X (0..NSteps) : e[2] = 0 \/ e[2] >= e[1]}

\* the plans a planner can hand over: a valid dependency graph plus at most
\* MaxBadEdges bad entries, and at most one step whose tool is unknown or
\* whose args do not parse
PlannedInit ==
  /\ refs = [s \in Steps |-> {}]
  /\ order = [s \in Steps |-> s]
  /\ vResult = NotValidated
  /\ \E f \in 0..NSteps, toolFault \in BOOLEAN :
       /\ toolKnown = [s \in Steps |-> ~(toolFault /\ s = f)]
       /\ argsValid = [s \in Steps |-> ~(~toolFault /\ s = f)]
  /\ \E base \in ValidDeps,
        B \in {X \in SUBSET BadEdges : Cardinality(X) <= MaxBadEdges} :
       deps = [s \in Steps |-> base[s] \cup {e[2] : e \in {x \in B : x[1] = s}}]
  /\ EngineStart

ValidatedInit == PlannedInit /\ pc = "validate"

\* the plan is validated before it is executed: execute is called only for
\* a plan validatePlan accepted
Validate ==
  /\ pc = "validate"
  /\ vResult' = validatePlan
  /\ pc' = IF validatePlan.ok THEN "loop" ELSE "rejected"
  /\ UNCHANGED <<refs, toolKnown, argsValid, order, deps, critical, status, result,
                 approval, stepPc, batch, context, events, dispatched, invoked,
                 summary>>
  /\ UNCHANGED nonEngineVars

ValidatedNext == Validate \/ Next

ValidatedSpec == ValidatedInit /\ [][ValidatedNext]_vars

\* The runs in which execute is handed a plan nobody validated: a valid
\* dependency graph plus one dependsOn entry that names the step itself, a
\* later step or no step at all.
StuckInit ==
  /\ PlainPlan
  /\ \E base \in ValidDeps, e \in BadEdges :
       deps = [s \in Steps |-> IF s = e[1] THEN base[s] \cup {e[2]} ELSE base[s]]
  /\ pc = "loop"
  /\ EngineStart

StuckSpec == StuckInit /\ [][Next]_vars

\* executeStep, line 203 and 223-227: requestApproval rejects (the request
\* could not be made or answered); the await throws inside the try
ApprovalThrows(s) ==
  /\ stepPc[s] = "awaitApproval"
  /\ approval' = [approval EXCEPT ![s] = "error"]
  /\ Catch(s)
  /\ UNCHANGED <<planVars, deps, critical, pc, batch, context, dispatched, invoked, summary>>
  /\ UNCHANGED nonEngineVars

\* The runs in which every step-level failure can occur: the plan was not
\* validated and at most one of its steps names a tool that is not in the
\* registry; approval requests can fail.
CaptureInit ==
  /\ refs = [s \in Steps |-> {}]
  /\ argsValid = [s \in Steps |-> TRUE]
  /\ order = [s \in Steps |-> s]
  /\ vResult = NotValidated
  /\ \E f \in 0..NSteps : toolKnown = [s \in Steps |-> s # f]
  /\ deps \in ValidDeps
  /\ pc = "loop"
  /\ EngineStart

CaptureNext == Next \/ \E s \in Steps : ApprovalThrows(s)

CaptureSpec == CaptureInit /\ [][CaptureNext]_vars

\* The runs over plans whose order fields are any numbering of the steps
\* that respects dependsOn; the position of a step in plan.steps is
\* independent of its order field.
OrderInit ==
  /\ refs = [s \in Steps |-> {}]
  /\ toolKnown = [s \in Steps |-> TRUE]
  /\ argsValid = [s \in Steps |-> TRUE]
  /\ vResult = NotValidated
  /\ deps \in ValidDeps
  /\ order \in {o \in [Steps -> Steps] :
                  /\ \A s, t \in Steps : s # t => o[s] # o[t]
                  /\ \A s \in Steps : \A d \in deps[s] : o[d] < o[s]}
  /\ pc = "loop"
  /\ EngineStart

OrderSpec == OrderInit /\ [][Next]_vars

\* execute, lines 174-186: filter keeps the array order of plan.steps and
\* map calls executeStep for the elements in that order
RECURSIVE ArrayOrder(_)
ArrayOrder(S) ==
  IF S = {} THEN <<>>
  ELSE LET first == CHOOSE s \in S : \A t \in S : s <= t
       IN <<first>> \o ArrayOrder(S \ {first})

\* the order in which the steps of the current pass were launched
launchOrder == ArrayOrder(batch)

\* executeStep, lines 213-221 with a failing progress channel: tool.execute
\* resolves, status, result and context are written, and emitProgress at
\* line 221 throws; control is on its way to the catch block
ToolReturnEmitThrows(s, ok) ==
  /\ stepPc[s] = "awaitTool"
  /\ status' = [status EXCEPT ![s] = IF ok THEN "completed" ELSE "failed"]
  /\ result' = [result EXCEPT ![s] = IF ok THEN OkResult ELSE ToolErrorResult]
  /\ context' = contextSet(context, s, IF ok THEN "value" ELSE "undefined")
  /\ stepPc' = [stepPc EXCEPT ![s] = "emitThrew"]
  /\ UNCHANGED <<planVars, deps, critical, approval, pc, batch, events, dispatched,
                 invoked, summary>>
  /\ UNCHANGED nonEngineVars

\* executeStep, lines 223-227 after line 221 threw: the catch block
\* overwrites status and result; its own emitProgress (line 226) succeeds,
\* or throws again and the executeStep call rejects
CatchAfterEmit(s, emitOk) ==
  /\ stepPc[s] = "emitThrew"
  /\ IF emitOk
     THEN Catch(s)
     ELSE /\ status' = [status EXCEPT ![s] = "failed"]
          /\ result' = [result EXCEPT ![s] = ThrownResult]
          /\ stepPc' = [stepPc EXCEPT ![s] = "rejected"]
          /\ UNCHANGED events
  /\ UNCHANGED <<planVars, deps, critical, approval, pc, batch, context, dispatched,
                 invoked, summary>>
  /\ UNCHANGED nonEngineVars

\* execute, line 185: Promise.all rejects as soon as one executeStep call
\* has rejected; the await throws and execute rejects without a summary
BatchRejected ==
  /\ pc = "await"
  /\ \E s \in batch : stepPc[s] = "rejected"
  /\ pc' = "thrown"
  /\ UNCHANGED <<planVars, deps, critical, status, result, approval, stepPc, batch,
                 context, events, dispatched, invoked, summary>>
  /\ UNCHANGED nonEngineVars

EmitNext ==
  \/ Next
  \/ \E s \in Steps, ok \in BOOLEAN : ToolReturnEmitThrows(s, ok)
  \/ \E s \in Steps, emitOk \in BOOLEAN : CatchAfterEmit(s, emitOk)
  \/ BatchRejected

\* the runs in which emitting a progress event can fail
EmitSpec == FairInit /\ [][EmitNext]_vars

\* ------------------------------------------------- sub-agent pool actions
\* spawnSubAgentsTool.execute is called with args that satisfy its
\* inputSchema: a count and a batch of tasks
PoolInit ==
  /\ EngineParked
  /\ cancelled = FALSE
  /\ DispIdle /\ ChanIdle /\ HealthIdle /\ RetryIdle
  /\ pCount \in CountSchemaMin..CountSchemaMax
  /\ pTasks \in 0..MaxTasks
  /\ pPc = "start"
  /\ pAgents = <<>>
  /\ pQueue = <<>>
  /\ pResults = <<>>
  /\ pThrown = {}

IdleAgent == [pc |-> "idle", task |-> 0]

\* faulty variant: the loop of spawn runs once too often
toSpawn_offbyone(count, maxConcurrency) == Min(count, maxConcurrency) + 1

\* SubAgentPool.spawn, part_000:233
toSpawn(count, maxConcurrency) == Min(count, maxConcurrency)

\* part_000:321-322 and 232-241: new SubAgentPool(args.count), then
\* spawn(args.count) pushes toSpawn agents
Spawn ==
  /\ pPc = "start"
  /\ pAgents' = pAgents \o [i \in 1..toSpawn(pCount, pCount) |-> IdleAgent]
  /\ pPc' = "spawned"
  /\ UNCHANGED <<pCount, pTasks, pQueue, pResults, pThrown>>
  /\ UNCHANGED notPool

\* part_000:259-265 and 277-282: executeAll copies the tasks into the queue
\* and calls processQueue for every agent in turn; each call runs up to its
\* first await, so agent i takes the i-th task or leaves at once when the
\* queue is already empty
ExecuteAllStart ==
  /\ pPc = "spawned"
  /\ pAgents' = [i \in 1..Len(pAgents) |->
                   IF i <= pTasks THEN [pc |-> "running", task |-> i]
                   ELSE [pc |-> "exited", task |-> 0]]
  /\ pQueue' = [i \in 1..(IF pTasks > Len(pAgents) THEN pTasks - Len(pAgents) ELSE 0)
                  |-> Len(pAgents) + i]
  /\ pResults' = <<>>
  /\ pPc' = "running"
  /\ UNCHANGED <<pCount, pTasks, pThrown>>
  /\ UNCHANGED notPool

\* faulty variant: only successful results are kept
pushResult_okonly(results, r) == IF r.ok THEN Append(results, r) ELSE results

\* processQueue, part_000:285
pushResult(results, r) == Append(results, r)

\* faulty variant: a worker handles the item it was given and leaves
ItemDone_oneshot(a, ok) ==
  /\ a \in 1..Len(pAgents)
  /\ pAgents[a].pc = "running"
  /\ pResults' = pushResult(pResults, [task |-> pAgents[a].task, ok |-> ok])
  /\ pAgents' = [pAgents EXCEPT ![a] = [pc |-> "exited", task |-> 0]]
  /\ UNCHANGED <<pCount, pTasks, pPc, pThrown, pQueue>>
  /\ UNCHANGED notPool

\* processQueue, part_000:277-287: agent.execute of worker a resolves with a
\* result (ok or not); the result is pushed and the loop takes the next task
\* of the queue or ends
ItemDone(a, ok) ==
  /\ a \in 1..Len(pAgents)
  /\ pAgents[a].pc = "running"
  /\ pResults' = pushResult(pResults, [task |-> pAgents[a].task, ok |-> ok])
  /\ IF pQueue # <<>>
     THEN /\ pAgents' = [pAgents EXCEPT ![a] = [pc |-> "running", task |-> Head(pQueue)]]
          /\ pQueue' = Tail(pQueue)
     ELSE /\ pAgents' = [pAgents EXCEPT ![a] = [pc |-> "exited", task |-> 0]]
          /\ pQueue' = pQueue
  /\ UNCHANGED <<pCount, pTasks, pPc, pThrown>>
  /\ UNCHANGED notPool

\* part_000:282 and 267: agent.execute of worker a rejects; processQueue has
\* no try/catch, so the worker's promise rejects, and with it Promise.all,
\* executeAll and the tool's execute (shutdown at line 329 is not reached)
ItemThrow(a) ==
  /\ a \in 1..Len(pAgents)
  /\ pAgents[a].pc = "running"
  /\ pAgents' = [pAgents EXCEPT ![a] = [pc |-> "rejected", task |-> @.task]]
  /\ pThrown' = pThrown \cup {pAgents[a].task}
  /\ pPc' = IF pPc = "running" THEN "rejected" ELSE pPc
  /\ UNCHANGED <<pCount, pTasks, pQueue, pResults>>
  /\ UNCHANGED notPool

\* part_000:267-268: every processQueue call has returned, executeAll
\* returns results
ExecuteAllReturn ==
  /\ pPc = "running"
  /\ \A a \in 1..Len(pAgents) : pAgents[a].pc = "exited"
  /\ pPc' = "returned"
  /\ UNCHANGED <<pCount, pTasks, pAgents, pQueue, pResults, pThrown>>
  /\ UNCHANGED notPool

\* part_000:290-295 and 329-330: shutdown terminates the workers and empties
\* agents, then the tool returns { ok: true, value: { results } }
PoolShutdown ==
  /\ pPc = "returned"
  /\ pAgents' = <<>>
  /\ pPc' = "done"
  /\ UNCHANGED <<pCount, pTasks, pQueue, pResults, pThrown>>
  /\ UNCHANGED notPool

PoolNext ==
  \/ Spawn
  \/ ExecuteAllStart
  \/ \E a \in 1..(CountSchemaMax + 1), ok \in BOOLEAN : ItemDone(a, ok)
  \/ \E a \in 1..(CountSchemaMax + 1) : ItemThrow(a)
  \/ ExecuteAllReturn
  \/ PoolShutdown

PoolSpec == PoolInit /\ [][PoolNext]_vars

\* tasks being executed by an agent right now
Executing == {a \in 1..Len(pAgents) : pAgents[a].pc = "running"}

\* part_000:447-448: the succeeded and the failed subset of the results
Succeeded(results) == {i \in 1..Len(results) : results[i].ok}
Failed(results) == {i \in 1..Len(results) : ~results[i].ok}

\* ------------------------------------- sub-agent pool, methods called directly
\* new SubAgentPool(maxConcurrency), part_000:228-230: pCount is the pool's
\* maxConcurrency, pTasks the batch later given to executeAll
ApiInit ==
  /\ EngineParked
  /\ cancelled = FALSE
  /\ DispIdle /\ ChanIdle /\ HealthIdle /\ RetryIdle
  /\ pCount \in 1..MaxConcurrencyArg
  /\ pTasks \in 0..MaxTasks
  /\ pPc = "start"
  /\ pAgents = <<>>
  /\ pQueue = <<>>
  /\ pResults = <<>>
  /\ pThrown = {}

\* SubAgentPool.spawn(count), part_000:232-241: toSpawn more agents are
\* pushed onto this.agents, whatever it holds already
SpawnCall(count) ==
  /\ pPc \in {"start", "spawned"}
  /\ Len(pAgents) + toSpawn(count, pCount) <= MaxAgents
  /\ pAgents' = pAgents \o [i \in 1..toSpawn(count, pCount) |-> IdleAgent]
  /\ pPc' = "spawned"
  /\ UNCHANGED <<pCount, pTasks, pQueue, pResults, pThrown>>
  /\ UNCHANGED notPool

\* executeAll on a pool that never spawned, part_000:259-267: this.agents is
\* empty, so workers is [] and Promise.all([]) resolves at once
ExecuteAllNoSpawn ==
  /\ pPc = "start"
  /\ pQueue' = [i \in 1..pTasks |-> i]
  /\ pResults' = <<>>
  /\ pPc' = "running"
  /\ UNCHANGED <<pCount, pTasks, pAgents, pThrown>>
  /\ UNCHANGED notPool

\* items handed to a worker by a processQueue loop whose agent the pool
\* holds no more: they are in no queue, with no agent, and have no outcome
Orphans ==
  IF pPc \in {"start", "spawned"} THEN {}
  ELSE {t \in 1..pTasks :
          /\ \A i \in 1..Len(pQueue) : pQueue[i] # t
          /\ \A a \in 1..Len(pAgents) : pAgents[a].task # t
          /\ \A i \in 1..Len(pResults) : pResults[i].task # t
          /\ t \notin pThrown}

\* SubAgentPool.shutdown while executeAll is pending, part_000:290-295: the
\* workers are terminated and this.agents is emptied; the queue and the
\* processQueue loops (which hold their agent) are left alone
ShutdownInFlight ==
  /\ pPc = "running"
  /\ pAgents # <<>>
  /\ pAgents' = <<>>
  /\ UNCHANGED <<pCount, pTasks, pPc, pQueue, pResults, pThrown>>
  /\ UNCHANGED notPool

\* processQueue, part_000:277-287, after shutdown: agent.execute on the
\* terminated worker resolves all the same; the loop pushes the result and
\* hands the next queued item to the terminated worker
OrphanSettle(t, ok) ==
  /\ pAgents = <<>>
  /\ t \in Orphans
  /\ pResults' = pushResult(pResults, [task |-> t, ok |-> ok])
  /\ pQueue' = IF pQueue # <<>> THEN Tail(pQueue) ELSE pQueue
  /\ UNCHANGED <<pCount, pTasks, pPc, pAgents, pThrown>>
  /\ UNCHANGED notPool

\* part_000:282 and 267, after shutdown: agent.execute on the terminated
\* worker rejects, and with it executeAll
OrphanReject(t) ==
  /\ pAgents = <<>>
  /\ t \in Orphans
  /\ pThrown' = pThrown \cup {t}
  /\ pPc' = IF pPc = "running" THEN "rejected" ELSE pPc
  /\ UNCHANGED <<pCount, pTasks, pAgents, pQueue, pResults>>
  /\ UNCHANGED notPool

\* part_000:267-268: executeAll returns once every processQueue loop is over
ApiExecuteAllReturn == Orphans = {} /\ ExecuteAllReturn

ApiNext ==
  \/ \E count \in 0..(MaxConcurrencyArg + 1) : SpawnCall(count)
  \/ ExecuteAllNoSpawn
  \/ ExecuteAllStart
  \/ \E a \in 1..MaxAgents, ok \in BOOLEAN : ItemDone(a, ok)
  \/ \E a \in 1..MaxAgents : ItemThrow(a)
  \/ ShutdownInFlight
  \/ \E t \in 1..MaxTasks, ok \in BOOLEAN : OrphanSettle(t, ok)
  \/ \E t \in 1..MaxTasks : OrphanReject(t)
  \/ ApiExecuteAllReturn
  \/ PoolShutdown

ApiSpec == ApiInit /\ [][ApiNext]_vars

\* an agent.execute on a live worker settles and a settled executeAll
\* returns; nothing makes an agent.execute on a terminated worker settle
\* (executeOnWorker has no timeout and no exit handler in the source)
ApiFairSpec ==
  /\ ApiSpec
  /\ WF_vars(\E a \in 1..MaxAgents : ItemDone(a, TRUE) \/ ItemThrow(a))
  /\ WF_vars(ApiExecuteAllReturn)

\* ------------------------------------------------- task dispatch actions
DispInit ==
  /\ EngineParked
  /\ cancelled = FALSE
  /\ PoolIdle /\ ChanIdle /\ HealthIdle /\ RetryIdle
  /\ DispIdle

InInbox(t) == \E i \in 1..Len(dInbox) : dInbox[i] = t

\* faulty variant: every delivery is queued
AcceptDispatch_always(t) == TRUE

\* the receiving side of execute_task: a dispatch for a task that is
\* already running (dispatched and not completed) is a no-op
AcceptDispatch(t) == dCurrent # t /\ ~InInbox(t)

\* vm-isolation.md:68: the host delivers { type: 'execute_task', taskId }
DeliverExecuteTask(t) ==
  /\ dDelivered[t] < MaxDeliveries
  /\ dDelivered' = [dDelivered EXCEPT ![t] = @ + 1]
  /\ dRedelivered' = [dRedelivered EXCEPT ![t] = IF dCurrent = t THEN @ + 1 ELSE @]
  /\ dInbox' = IF AcceptDispatch(t) THEN Append(dInbox, t) ELSE dInbox
  /\ UNCHANGED <<dCurrent, dRuns>>
  /\ UNCHANGED notDisp

\* agentLoop, README.md:40-47: receiveTask returns the next task and the
\* loop plans and executes it
ReceiveTask ==
  /\ dCurrent = 0
  /\ dInbox # <<>>
  /\ dCurrent' = Head(dInbox)
  /\ dInbox' = Tail(dInbox)
  /\ dRuns' = [dRuns EXCEPT ![Head(dInbox)] = @ + 1]
  /\ UNCHANGED <<dDelivered, dRedelivered>>
  /\ UNCHANGED notDisp

\* agentLoop, README.md:47-50: execute has returned, completion is reported
\* and the loop goes back to receiveTask
TaskComplete ==
  /\ dCurrent # 0
  /\ dCurrent' = 0
  /\ UNCHANGED <<dInbox, dRuns, dDelivered, dRedelivered>>
  /\ UNCHANGED notDisp

DispNext ==
  \/ \E t \in TaskIds : DeliverExecuteTask(t)
  \/ ReceiveTask
  \/ TaskComplete

DispSpec == DispInit /\ [][DispNext]_vars

\* ------------------------------------------------ progress channel actions
ChanInit ==
  /\ EngineParked
  /\ cancelled = FALSE
  /\ PoolIdle /\ DispIdle /\ HealthIdle /\ RetryIdle
  /\ ChanIdle

\* faulty variant: the newest message overtakes the older ones
NextDelivered_last(chan) == Len(chan)

\* vm-isolation.md:62: the transport is a stream socket (Unix domain socket,
\* virtio-vsock); the message read next is the oldest one in flight
NextDelivered(chan) == 1

RemoveAt(q, i) == SubSeq(q, 1, i - 1) \o SubSeq(q, i + 1, Len(q))

\* VMMessage, vm-isolation.md:74: { type: 'task_progress', taskId, progress }
TaskProgressMsg(t, p) == [type |-> "task_progress", taskId |-> t, progress |-> p]

\* ApprovalRequest, schema.ts:354-359
ApprovalRequest(s) ==
  [stepId |-> s, tool |-> "tool", args |-> "args", reason |-> "reason"]

\* VMMessage, vm-isolation.md:76: { type: 'approval_request', request }
ApprovalRequestMsg(s) == [type |-> "approval_request", request |-> ApprovalRequest(s)]

\* vm-isolation.md:74: the sandbox sends the next task_progress of task t
EmitTaskProgress(t) ==
  /\ Len(cEmitted[t]) < MaxEvents
  /\ LET n == Len(cEmitted[t]) + 1
     IN /\ cEmitted' = [cEmitted EXCEPT ![t] = Append(@, n)]
        /\ cChan' = Append(cChan, TaskProgressMsg(t, n))
  /\ UNCHANGED cObserved
  /\ UNCHANGED notChan

\* vm-isolation.md:76: the sandbox sends the approval request of step s; at
\* most one approval_request is in flight
EmitApprovalRequest(s) ==
  /\ \A i \in 1..Len(cChan) : cChan[i].type # "approval_request"
  /\ cChan' = Append(cChan, ApprovalRequestMsg(s))
  /\ UNCHANGED <<cEmitted, cObserved>>
  /\ UNCHANGED notChan

\* the host reads a message from the socket; a task_progress is relayed to
\* the subscribers of its task, an approval_request goes to the approval
\* dialog
HostObserve ==
  /\ cChan # <<>>
  /\ LET i == NextDelivered(cChan)
         msg == cChan[i]
     IN /\ cObserved' = IF msg.type = "task_progress"
                        THEN [cObserved EXCEPT ![msg.taskId] = Append(@, msg.progress)]
                        ELSE cObserved
        /\ cChan' = RemoveAt(cChan, i)
  /\ UNCHANGED cEmitted
  /\ UNCHANGED notChan

ChanNext ==
  \/ \E t \in TaskIds : EmitTaskProgress(t)
  \/ \E s \in Steps : EmitApprovalRequest(s)
  \/ HostObserve

ChanSpec == ChanInit /\ [][ChanNext]_vars

IsPrefix(a, b) == Len(a) <= Len(b) /\ \A i \in 1..Len(a) : a[i] = b[i]

\* ------------------------------------------------- health monitor actions
HealthInit ==
  /\ EngineParked
  /\ cancelled = FALSE
  /\ PoolIdle /\ DispIdle /\ ChanIdle /\ RetryIdle
  /\ HealthIdle

\* faulty variant: only a missing response counts as a failed probe
ProbeFailed_missingonly(r) == r = "none"

\* monitorHealth, vm-isolation.md:139: !response || response.type !== 'health_ok'
ProbeFailed(r) == r = "none" \/ r # "health_ok"

\* monitorHealth, vm-isolation.md:137-138: the interval fires and the next
\* health_check is sent
ProbeTick(k) ==
  /\ hProbe[k] = "unsent"
  /\ \A j \in Probes : j < k => hProbe[j] # "unsent"
  /\ hProbe' = [hProbe EXCEPT ![k] = "waiting"]
  /\ UNCHANGED hRestart
  /\ UNCHANGED notHealth

\* monitorHealth, vm-isolation.md:138-142: sendToVM of probe k resolves with
\* response r; a failed probe is logged and restartVM is called
ProbeResolved(k, r) ==
  /\ hProbe[k] = "waiting"
  /\ hProbe' = [hProbe EXCEPT ![k] = r]
  /\ hRestart' = [hRestart EXCEPT ![k] = IF ProbeFailed(r) THEN "restarting" ELSE @]
  /\ UNCHANGED notHealth

\* the VM answers probe k, with health_ok or with something else
ProbeResponse(k, r) == r \in {"health_ok", "other"} /\ ProbeResolved(k, r)

\* sendToVM: no answer within the response bound, the call resolves with no
\* response
ProbeTimeout(k) == ProbeResolved(k, "none")

\* monitorHealth, vm-isolation.md:141: restartVM of probe k returns
RestartDone(k) ==
  /\ hRestart[k] = "restarting"
  /\ hRestart' = [hRestart EXCEPT ![k] = "done"]
  /\ UNCHANGED hProbe
  /\ UNCHANGED notHealth

HealthNext ==
  \/ \E k \in Probes : ProbeTick(k)
  \/ \E k \in Probes, r \in {"health_ok", "other"} : ProbeResponse(k, r)
  \/ \E k \in Probes : ProbeTimeout(k)
  \/ \E k \in Probes : RestartDone(k)

HealthSpec == HealthInit /\ [][HealthNext]_vars

\* the response timer of an outstanding probe eventually fires
HealthFairSpec == HealthSpec /\ \A k \in Probes : WF_vars(ProbeTimeout(k))

\* ---------------------------------------------------- retry loop actions
\* executeWithRetry(fn, maxRetries = 3), agent-runtime.md:210, and
\* const maxRetries = 3, planning-execution.md:324
maxRetries == 3

\* error codes of a failed attempt, schema.ts:403-408
FailureKinds == {"TIMEOUT", "EXECUTION_ERROR", "PERMISSION_DENIED", "INVALID_PATH"}

\* executeStep, agent-runtime.md:88-91: the approval was denied, the attempt
\* returns { ok: false, error: 'User denied approval', skipped: true }
DeniedOutcome == "denied"

RetryInit ==
  /\ EngineParked
  /\ cancelled = FALSE
  /\ PoolIdle /\ DispIdle /\ ChanIdle /\ HealthIdle
  /\ rVariant \in {"executeWithRetry", "strategy2"}
  /\ rI = 0
  /\ rPc = "try"
  /\ rOutcomes = <<>>
  /\ rDelays = <<>>
  /\ rResult = "none"

RECURSIVE Pow2(_)
Pow2(n) == IF n = 0 THEN 1 ELSE 2 * Pow2(n - 1)

\* faulty variant: the same delay before every attempt
Backoff_flat(variant, i) == 1000

\* agent-runtime.md:221: sleep(1000 * Math.pow(2, i));
\* planning-execution.md:328: sleep(1000 * (i + 1))
Backoff(variant, i) ==
  IF variant = "executeWithRetry" THEN 1000 * Pow2(i) ELSE 1000 * (i + 1)

\* faulty variant: the last attempt is taken to be the one after the bound
IsLastAttempt_late(i) == i = maxRetries

\* agent-runtime.md:218: i === maxRetries - 1;
\* planning-execution.md:328: !(i < maxRetries - 1)
IsLastAttempt(i) == i = maxRetries - 1

\* one attempt: fn() (agent-runtime.md:215) or executeStep(step)
\* (planning-execution.md:326) settles with outcome o.  A success ends the
\* loop; a failure ends it at the last attempt and sleeps otherwise.
Attempt(o) ==
  /\ rPc = "try"
  /\ rOutcomes' = Append(rOutcomes, o)
  /\ IF o = "ok"
     THEN /\ rResult' = "ok"
          /\ rPc' = "done"
          /\ rDelays' = rDelays
     ELSE IF IsLastAttempt(rI)
     THEN /\ rResult' = "fail"
          /\ rPc' = "done"
          /\ rDelays' = rDelays
     ELSE /\ rResult' = rResult
          /\ rPc' = "sleep"
          /\ rDelays' = Append(rDelays, Backoff(rVariant, rI))
  /\ UNCHANGED <<rVariant, rI>>
  /\ UNCHANGED notRetry

\* the sleep is over: i++ and the loop condition i < maxRetries; leaving
\* the loop of executeWithRetry that way reaches throw new Error('Unreachable')
SleepDone ==
  /\ rPc = "sleep"
  /\ rI' = rI + 1
  /\ IF rI + 1 < maxRetries
     THEN rPc' = "try" /\ rResult' = rResult
     ELSE /\ rPc' = "done"
          /\ rResult' = IF rVariant = "executeWithRetry" THEN "unreachable" ELSE "fail"
  /\ UNCHANGED <<rVariant, rOutcomes, rDelays>>
  /\ UNCHANGED notRetry

RetryNext ==
  \/ \E o \in {"ok", DeniedOutcome} \cup FailureKinds : Attempt(o)
  \/ SleepDone

RetrySpec == RetryInit /\ [][RetryNext]_vars

TypeOK ==
  /\ status \in [Steps -> StepStatus]
  /\ pc \in {"validate", "rejected", "loop", "await", "done", "thrown"}
  /\ stepPc \in [Steps -> {"idle", "awaitApproval", "awaitTool", "emitThrew",
                            "settled", "rejected"}]
  /\ batch \subseteq Steps

\* ------------------------------------------------------------ properties
Gated(s) == approval[s] \notin {"none", "notRequired"}

\* C1: when execute returns, every step of a valid plan is completed,
\* failed or skipped; none is left pending, blocked, ready or running,
\* the dependents of a failed or skipped step included.
C1_AllTerminalAtReturn ==
  pc = "done" => \A s \in Steps : status[s] \in Terminal

\* C2: no step is dispatched twice: executeStep is called at most once per
\* step and the step's tool is invoked at most once.
C2_NoDoubleDispatch ==
  \A s \in Steps : dispatched[s] <= 1 /\ invoked[s] <= 1

\* a run of several passes has returned with every step dispatched once
C2_Witness ==
  /\ pc = "done"
  /\ \A s \in Steps : dispatched[s] = 1
  /\ \E s \in Steps : deps[s] # {}

\* C3: at every instant the number of running steps (steps suspended on
\* approval included) is at most the configured concurrency ceiling.
C3_RunningWithinCeiling ==
  Cardinality({s \in Steps : status[s] = "running"}) <= Ceiling

\* C4: a step is set to running only when every step of its dependsOn is
\* completed; a dispatched step never has a prerequisite that is pending,
\* running, failed or skipped.
C4_DispatchOnlyWhenDepsCompleted ==
  [][\A s \in Steps :
       (status[s] # "running" /\ status'[s] = "running")
         => \A d \in deps[s] : status[d] = "completed"]_vars

\* a step with prerequisites is running while a step that depends on it is
\* held back
C4_Witness ==
  \E s, t \in Steps :
    /\ status[s] = "running" /\ deps[s] # {}
    /\ status[t] = "pending" /\ s \in deps[t]

\* C5: in a run in which a non-critical step failed, every step with no
\* dependency path to a failed or skipped step, and whose own capability
\* succeeded, is completed when execute returns.
C5_IndependentBranchesComplete ==
  (pc = "done" /\ \E f \in Steps : status[f] = "failed" /\ ~critical[f])
    => \A s \in Steps :
         (\A a \in Ancestors(s) \cup {s} : status[a] \notin {"failed", "skipped"})
           => status[s] = "completed"

\* a root step failed and a step of a later pass, not depending on it,
\* completed
C5_Witness ==
  /\ pc = "done"
  /\ \E f, s \in Steps :
       /\ status[f] = "failed" /\ ~critical[f] /\ deps[f] = {}
       /\ status[s] = "completed" /\ deps[s] # {} /\ f \notin Ancestors(s)

\* C6: when execute returns, every direct and transitive dependent of a
\* failed step is skipped with reason "blocked by failed dependency" and
\* its capability was never invoked.
C6_DependentsOfFailedSkipped ==
  pc = "done" =>
    \A f \in Steps : status[f] = "failed" =>
      \A d \in Descendants(f) :
        /\ status[d] = "skipped"
        /\ result[d].error = "blocked by failed dependency"
        /\ invoked[d] = 0

\* C7: once a step flagged critical has failed no step is left pending
\* (every step not yet started is skipped, so none is dispatched later)
\* and the summary reports status failed.
C7_CriticalFailureAborts ==
  \A f \in Steps : (critical[f] /\ status[f] = "failed") =>
    /\ \A s \in Steps : status[s] # "pending"
    /\ pc = "done" => summary.status = "failed"

\* C8: the capability of a gated step is invoked only after an approve
\* decision for that step; a denied step's capability is never invoked.
C8_GatedRunsOnlyWhenApproved ==
  \A s \in Steps :
    /\ (Gated(s) /\ invoked[s] > 0) => approval[s] = "approved"
    /\ approval[s] = "denied" => invoked[s] = 0

\* one step was denied while another gated step was approved and invoked
C8_Witness ==
  \E s, t \in Steps :
    /\ approval[s] = "denied" /\ stepPc[s] = "settled"
    /\ approval[t] = "approved" /\ invoked[t] = 1

\* a run whose only non-completed steps are skipped ones
OnlySkips ==
  /\ \A s \in Steps : status[s] \in {"completed", "skipped"}
  /\ \E s \in Steps : status[s] = "skipped"

\* C9 as stated: a denied step is skipped with result
\* {ok:false, error:"approval denied"}, and a run whose only non-completed
\* steps are skipped ends with status completed-with-skips.
C9_DenialResultAsStated ==
  /\ \A s \in Steps : approval[s] = "denied" =>
       /\ status[s] = "skipped"
       /\ result[s] = [set |-> TRUE, ok |-> FALSE, error |-> "approval denied"]
  /\ (pc = "done" /\ OnlySkips) => summary.status = "completed-with-skips"

\* C9 amended: a denied step is skipped with result
\* {ok:false, error:"User denied approval"}, and a run whose only
\* non-completed steps are skipped ends with status completed-with-skips.
C9_DenialSkipsWithoutFailingRun ==
  /\ \A s \in Steps : approval[s] = "denied" =>
       /\ status[s] = "skipped"
       /\ result[s] = [set |-> TRUE, ok |-> FALSE, error |-> "User denied approval"]
  /\ (pc = "done" /\ OnlySkips) => summary.status = "completed-with-skips"

\* a run with a denied step has returned with status completed-with-skips
C9_Witness ==
  /\ pc = "done"
  /\ \E s \in Steps : approval[s] = "denied"
  /\ summary.status = "completed-with-skips"

\* C10: an approval request that gets no decision within the timeout is
\* resolved as denied: the step is skipped, its capability is not invoked,
\* and no step stays suspended on approval forever.
C10_ApprovalFailsClosed ==
  /\ [](\A s \in Steps : approval[s] = "timeout" =>
          status[s] = "skipped" /\ invoked[s] = 0)
  /\ \A s \in Steps :
       (stepPc[s] = "awaitApproval") ~> (stepPc[s] # "awaitApproval")

\* the request of a step timed out and the step was skipped, not executed
C10_Witness ==
  \E s \in Steps :
    approval[s] = "timeout" /\ status[s] = "skipped" /\ invoked[s] = 0

\* C11: several approval requests pending together are resolved in any
\* order; resolving the request of one step leaves every other step's
\* request, status and invocation as they were, and resumes only that step.
C11_ApprovalsIndependent ==
  [][\A s \in Steps :
       (approval[s] = "pending" /\ approval'[s] # "pending")
         => /\ stepPc'[s] # "awaitApproval"
            /\ \A t \in Steps \ {s} :
                 /\ approval'[t] = approval[t]
                 /\ stepPc'[t] = stepPc[t]
                 /\ status'[t] = status[t]
                 /\ result'[t] = result[t]
                 /\ invoked'[t] = invoked[t]]_vars

\* of two requests pending together the later one was denied first and the
\* earlier one is still pending
C11_Witness ==
  \E s, t \in Steps :
    /\ s < t /\ {s, t} \subseteq batch
    /\ approval[s] = "pending" /\ stepPc[s] = "awaitApproval"
    /\ approval[t] = "denied" /\ status[t] = "skipped"

\* C12: while a step is suspended (on approval or on its capability) no
\* other step whose prerequisites are all completed is held back when a
\* slot under the concurrency ceiling is free.
C12_SuspensionDoesNotBlock ==
  \A s \in Steps :
    (/\ status[s] = "pending"
     /\ allDependenciesSatisfied(s)
     /\ Cardinality({r \in Steps : status[r] = "running"}) < Ceiling)
      => ~ \E t \in Steps : stepPc[t] \in {"awaitApproval", "awaitTool"}

\* C13: after the cancel signal no step is dispatched (so no step that was
\* not running at the cancel can become completed), and the summary
\* returned has status cancelled.
C13_CancelStopsDispatch ==
  [][cancelled =>
       /\ \A s \in Steps : status'[s] = "running" => status[s] = "running"
       /\ pc' = "done" => summary'.status = "cancelled"]_vars

C16_PartialFailureNotFatal ==
  /\ pPc # "rejected"
  /\ \A a \in 1..Len(pAgents) : pAgents[a].pc # "rejected"
  /\ pPc \in {"returned", "done"} =>
       \A k \in pThrown : \E i \in Failed(pResults) : pResults[i].task = k

\* C17: task dispatch is idempotent: an execute_task delivered for a task
\* that is already running starts no run; every run of a task is accounted
\* for by a delivery that did not arrive while the task was running.
C17_DispatchIdempotent ==
  \A t \in TaskIds :
    /\ dRuns[t] + (IF InInbox(t) THEN 1 ELSE 0) + dRedelivered[t] <= dDelivered[t]
    /\ dCurrent = t => ~InInbox(t)

\* a task was delivered again while it was running and has been run once
C17_Witness ==
  \E t \in TaskIds :
    dCurrent = t /\ dRedelivered[t] >= 1 /\ dRuns[t] = 1 /\ dInbox = <<>>

\* C18: for every task the host observes the task's progress events in the
\* order in which the sandbox emitted them, whatever events of other tasks
\* are interleaved.
C18_OrderedPerTask ==
  \A t \in TaskIds : IsPrefix(cObserved[t], cEmitted[t])

\* events of two tasks were interleaved on the channel and the host has
\* observed all events of one of them
C18_Witness ==
  /\ Len(cObserved[1]) = MaxEvents
  /\ Len(cObserved[2]) >= 1
  /\ cChan # <<>>
  /\ \E i \in 1..Len(cChan) :
       cChan[i].type = "task_progress" /\ cChan[i].taskId = 2 /\ cChan[i].progress > 1

\* C19: a health_check that is answered wrongly or not answered within the
\* bound triggers restartVM, a probe answered with health_ok never does, and
\* no probe stays unanswered forever.
C19_ProbeBounded ==
  /\ [](\A k \in Probes :
          /\ hProbe[k] \in {"other", "none"} => hRestart[k] # "none"
          /\ hProbe[k] \in {"unsent", "waiting", "health_ok"} => hRestart[k] = "none")
  /\ \A k \in Probes : (hProbe[k] = "waiting") ~> (hProbe[k] # "waiting")

\* one probe was answered with health_ok, one got a wrong answer and one
\* got none; the last two triggered a restart
C19_Witness ==
  \E i, j, k \in Probes :
    /\ hProbe[i] = "health_ok" /\ hRestart[i] = "none"
    /\ hProbe[j] = "other" /\ hRestart[j] # "none"
    /\ hProbe[k] = "none" /\ hRestart[k] # "none"

C21_NonTransientNotRetried ==
  \A i \in 1..(Len(rOutcomes) - 1) : rOutcomes[i] \notin {"INVALID_PATH", DeniedOutcome}

\* C22: a step whose args reference the output of a step that has no value
\* in the ExecutionContext (not completed, or failed) fails at once: its
\* capability is never invoked while a referenced output is missing.
C22_UnresolvedRefFailsStep ==
  [][\A s \in Steps :
       invoked'[s] # invoked[s] => \A r \in refs[s] : context[r] = "value"]_vars

\* the dependsOn entries that resolve to steps admit a topological ranking
Acyclic ==
  \E rank \in [Steps -> Steps] :
    \A s \in Steps : \A d \in deps[s] \cap Steps : rank[d] < rank[s]

StructurallyInvalid ==
  \/ ~Acyclic
  \/ \E s \in Steps : ~toolKnown[s]
  \/ \E s \in Steps : \E d \in deps[s] : d \notin Steps

C25_SummaryCoversEveryStep ==
  pc = "done" =>
    \A s \in Steps : summary.steps[s] \in Terminal /\ summary.results[s].set

C27_LaunchInPlanOrder ==
  \A i, j \in 1..Len(launchOrder) :
    i < j => order[launchOrder[i]] < order[launchOrder[j]]

\* C28: slots are refilled as they free: once a step launched in a pass has
\* finished while another step of that pass is still executing its
\* capability, no ready step is left waiting for a free slot.
C28_SlotsRefilled ==
  (/\ pc = "await"
   /\ \E s \in batch : stepPc[s] = "settled"
   /\ \E t \in batch : stepPc[t] = "awaitTool")
    => \/ readySteps = {}
       \/ Cardinality({r \in Steps : status[r] = "running"}) >= Ceiling

\* C29: terminal statuses are immutable: once a step is completed, failed
\* or skipped, no later action changes its status or its result.
C29_TerminalImmutable ==
  [][\A s \in Steps :
       status[s] \in Terminal => status'[s] = status[s] /\ result'[s] = result[s]]_vars

\* C30: the ExecutionContext is write-once per key within a run: a key is
\* written only by the one executeStep call of its step, and a value
\* stored under a step id is never replaced.
C30_ContextWriteOnce ==
  /\ [](\A s \in Steps :
          context[s] # "absent" =>
            dispatched[s] = 1 /\ stepPc[s] \in {"settled", "emitThrew", "rejected"})
  /\ [][\A s \in Steps : context[s] # "absent" => context'[s] = context[s]]_vars

\* a run has returned in which two steps stored their values
C30_Witness ==
  /\ pc = "done"
  /\ \E s, t \in Steps : s # t /\ context[s] = "value" /\ context[t] = "value"

\* C31: an event is emitted for every status transition of a step: the
\* events of a dispatched step are one running event followed, once the
\* step is terminal, by exactly one event with its terminal status (also
\* for a step skipped by a denied approval), and nothing after it.
C31_EventPerTransition ==
  \A s \in Steps :
    /\ status[s] = "running" => events[s] = <<"running">>
    /\ (dispatched[s] > 0 /\ status[s] \in Terminal)
         => events[s] = <<"running", status[s]>>

\* C32: every control message that is not a health probe or acknowledgement
\* carries a task id, and an approval message carries a step id as well.
C32_MessagesCarryTaskId ==
  \A i \in 1..Len(cChan) :
    /\ "taskId" \in DOMAIN cChan[i]
    /\ cChan[i].type = "approval_request" => "stepId" \in DOMAIN cChan[i].request

C34_ShutdownReleasesInFlight ==
  (pPc = "running" /\ pAgents = <<>> /\ Orphans # {}) ~> (pPc # "running")

\* C35: items are pulled from one shared queue: while the queue is non-empty
\* no worker is idle or has left its loop, and a worker whose item resolves
\* takes the item at the head of the queue, whatever the other workers hold.
C35_SharedQueue ==
  /\ [](pQueue # <<>> =>
          \A a \in 1..Len(pAgents) : pAgents[a].pc \notin {"idle", "exited"})
  /\ [][\A a \in 1..Len(pAgents) :
          (pQueue # <<>> /\ pAgents[a].pc = "running" /\ Len(pResults') > Len(pResults)
             /\ pAgents'[a] # pAgents[a])
            => pAgents'[a] = [pc |-> "running", task |-> Head(pQueue)]]_vars

\* a worker took a queued item (one beyond the first item of every worker)
\* while another worker is still busy with its first item
C35_Witness ==
  /\ pPc = "running"
  /\ \E a, b \in 1..Len(pAgents) :
       /\ a # b
       /\ pAgents[a].pc = "running" /\ pAgents[a].task > Len(pAgents)
       /\ pAgents[b].pc = "running" /\ pAgents[b].task = b

\* C36: the ExecutionContext holds an entry for a step only if the step's
\* status is completed.
C36_ContextOnlyCompleted ==
  \A s \in Steps : context[s] # "absent" => status[s] = "completed"

\* C37: every item of the batch is executed exactly once: at no time is an
\* item in two places (queued, held by a worker, reported, thrown), and when
\* executeAll returns every item has an outcome, so a non-empty batch never
\* comes back with an empty result.
C37_ExactlyOnce ==
  /\ \A k \in 1..pTasks :
       Cardinality({i \in 1..Len(pQueue) : pQueue[i] = k})
         + Cardinality({a \in 1..Len(pAgents) : pAgents[a].task = k})
         + Cardinality({i \in 1..Len(pResults) : pResults[i].task = k}) <= 1
  /\ pPc \in {"returned", "done"} =>
       \A k \in 1..pTasks : \E i \in 1..Len(pResults) : pResults[i].task = k

\* C38: executeAll returns the outcomes in batch order: the i-th reported
\* result is the outcome of the i-th item of the batch.
C38_ResultsInBatchOrder ==
  pPc \in {"returned", "done"} =>
    \A i \in 1..Len(pResults) : pResults[i].task = i

\* C39: whatever spawn calls were made on a pool, it never holds more agents
\* than its maxConcurrency, and no more than maxConcurrency processQueue
\* workers run at once.
C39_SpawnWithinMaxConcurrency ==
  /\ Len(pAgents) <= pCount
  /\ Cardinality(Executing) <= pCount

\* C40: the health monitor never has two recoveries in progress at once: at
\* most one probe response or restartVM is outstanding at any time.
C40_OneRecoveryAtATime ==
  Cardinality({k \in Probes : hProbe[k] = "waiting" \/ hRestart[k] = "restarting"}) <= 1
====
